---- MODULE Spec2Model ----
(***************************************************************************)
(* FixedHashTable (src/hash_table/hash_table.py): a fixed-capacity hash    *)
(* table with linear probing, cluster repair on removal, and an intrusive  *)
(* doubly linked list that orders the entries by last insert-or-update.    *)
(*                                                                         *)
(* A Node object is identified by its key (the table holds at most one     *)
(* Node per key).  nodes[k] holds the fields of the Node for k that the    *)
(* table can reach; the Node unlinked by the last remove() is kept, with   *)
(* the fields remove() left in it, in last.node until the next call.       *)
(***************************************************************************)
EXTENDS Integers, Sequences, FiniteSets, TLC

VARIABLES
  size,      \* self.size
  rawhash,   \* hash(key) of every key the callers use
  table,     \* self.table: slot index -> key of the Node held, or None
  nodes,     \* key -> [value, prev, next] of the Node of that key
  count,     \* self.count
  head,      \* self.head (key of the Node, or None)
  tail,      \* self.tail
  last,      \* the call that returned last: operation, arguments, outcome
  ref_order, \* history: live keys by time of last successful insert
  ref_map,   \* history: key -> value of its last successful insert
  pc,        \* position of the scripted caller (0 for the free caller)
  trade,     \* the dict given to parse_trade (<<>> when it is not called)
  parsed     \* what parse_trade returned: <<>> for None, else <<dict>>

vars == <<size, rawhash, table, nodes, count, head, tail, last,
          ref_order, ref_map, pc, trade, parsed>>

(* ---------------------------- bounds ---------------------------------- *)
NumKeys == 3

\* the table sizes the constructor is called with
Sizes == {1, 2, 3}

KeyNames == <<"a", "b", "c", "d", "e", "f", "g", "h">>
Keys     == DOMAIN rawhash
\* values are opaque payloads: two of them tell an update from a stale value
Vals     == {1, 2}
None     == "None"
NoVal    == 0
Slots    == 0..(size - 1)

(* ---------------------------- Node ------------------------------------ *)
Node(value) == [value |-> value, prev |-> None, next |-> None]

NoNode == [value |-> NoVal, prev |-> None, next |-> None]

(* ---------------------------- helpers --------------------------------- *)
hash(key) == rawhash[key] % size

\* a probe that stops at empty slots only and never compares keys
RECURSIVE probe_nokeymatch(_, _, _, _)
probe_nokeymatch(tbl, key, idx, start_idx) ==
  IF tbl[idx] = None THEN idx
  ELSE LET nxt == (idx + 1) % size
       IN  IF nxt = start_idx THEN nxt
           ELSE probe_nokeymatch(tbl, key, nxt, start_idx)

RECURSIVE probe(_, _, _, _)
probe(tbl, key, idx, start_idx) ==
  IF tbl[idx] = None THEN idx
  ELSE IF tbl[idx] = key THEN idx
  ELSE LET nxt == (idx + 1) % size
       IN  IF nxt = start_idx THEN nxt
           ELSE probe(tbl, key, nxt, start_idx)

\* _find_slot that answers the hash slot without probing
find_slot_home(tbl, key) == hash(key)

find_slot(tbl, key) == probe(tbl, key, hash(key), hash(key))

\* the probe loop without the test for having come back to the start
RECURSIVE probe_trace_nowrap(_, _, _, _, _)
probe_trace_nowrap(tbl, key, idx, start_idx, fuel) ==
  IF fuel = 0 \/ tbl[idx] = None \/ tbl[idx] = key
  THEN [idx |-> idx, visits |-> 1]
  ELSE LET r == probe_trace_nowrap(tbl, key, (idx + 1) % size, start_idx,
                                   fuel - 1)
       IN  [idx |-> r.idx, visits |-> r.visits + 1]

\* the while loop of _find_slot with the number of slots it looks at: the
\* slot it answers and the count; fuel cuts a loop that has looked at size
\* slots and goes on, which then counts size + 1
RECURSIVE probe_trace(_, _, _, _, _)
probe_trace(tbl, key, idx, start_idx, fuel) ==
  IF fuel = 0 \/ tbl[idx] = None \/ tbl[idx] = key
  THEN [idx |-> idx, visits |-> 1]
  ELSE LET nxt == (idx + 1) % size
       IN  IF nxt = start_idx THEN [idx |-> nxt, visits |-> 1]
           ELSE LET r == probe_trace(tbl, key, nxt, start_idx, fuel - 1)
                IN  [idx |-> r.idx, visits |-> r.visits + 1]

find_slot_trace(tbl, key) == probe_trace(tbl, key, hash(key), hash(key), size)

\* the while loop of _rehash_cluster with the number of its iterations and
\* the longest probe of its _find_slot calls; fuel as in probe_trace
RECURSIVE rehash_trace(_, _, _, _)
rehash_trace(tc, idx, start_idx, fuel) ==
  IF fuel = 0 THEN [tc EXCEPT !.iters = @ + 1]
  ELSE IF tc.table[idx] = None THEN tc
  ELSE LET node == tc.table[idx]
           t1   == [tc.table EXCEPT ![idx] = None]
           p    == find_slot_trace(t1, node)
           tc2  == [table  |-> [t1 EXCEPT ![p.idx] = node],
                    count  |-> (tc.count - 1) + 1,
                    iters  |-> tc.iters + 1,
                    probes |-> IF p.visits > tc.probes THEN p.visits
                               ELSE tc.probes]
           nxt  == (idx + 1) % size
       IN  IF nxt = start_idx THEN tc2
           ELSE rehash_trace(tc2, nxt, start_idx, fuel - 1)

\* reseat without the decrement of count
reseat_nodecrement(tc, idx) ==
  LET node    == tc.table[idx]
      t1      == [tc.table EXCEPT ![idx] = None]
      new_idx == find_slot(t1, node)
  IN  [table |-> [t1 EXCEPT ![new_idx] = node], count |-> tc.count + 1]

\* reseat that puts the entry at its hash slot without probing
reseat_noprobe(tc, idx) ==
  LET node    == tc.table[idx]
      t1      == [tc.table EXCEPT ![idx] = None]
      c1      == tc.count - 1
      new_idx == hash(node)
  IN  [table |-> [t1 EXCEPT ![new_idx] = node], count |-> c1 + 1]

\* one iteration of the while loop of _rehash_cluster on [table, count]
reseat(tc, idx) ==
  LET node    == tc.table[idx]
      t1      == [tc.table EXCEPT ![idx] = None]
      c1      == tc.count - 1
      new_idx == find_slot(t1, node)
  IN  [table |-> [t1 EXCEPT ![new_idx] = node], count |-> c1 + 1]

\* a repair that re-seats only the first entry after the cleared slot
rehash_loop_once(tc, idx, start_idx) ==
  IF tc.table[idx] = None THEN tc ELSE reseat(tc, idx)

RECURSIVE rehash_loop(_, _, _)
rehash_loop(tc, idx, start_idx) ==
  IF tc.table[idx] = None THEN tc
  ELSE LET tc2 == reseat(tc, idx)
           nxt == (idx + 1) % size
       IN  IF nxt = start_idx THEN tc2
           ELSE rehash_loop(tc2, nxt, start_idx)

\* remove that only clears the slot, with no cluster repair
rehash_cluster_norepair(tc, start_idx) == tc

rehash_cluster(tc, start_idx) ==
  rehash_loop(tc, (start_idx + 1) % size, start_idx)

\* remove_node that forgets head when the first node is unlinked
remove_node_keephead(L, node) ==
  LET p  == L.nodes[node].prev
      L1 == IF p # None
            THEN [L EXCEPT !.nodes[p].next = L.nodes[node].next]
            ELSE L
      n  == L1.nodes[node].next
  IN  IF n # None
      THEN [L1 EXCEPT !.nodes[n].prev = L1.nodes[node].prev]
      ELSE [L1 EXCEPT !.tail = L1.nodes[node].prev]

\* remove_node that patches the neighbours but neither head nor tail
remove_node_noends(L, node) ==
  LET p  == L.nodes[node].prev
      L1 == IF p # None
            THEN [L EXCEPT !.nodes[p].next = L.nodes[node].next]
            ELSE L
      n  == L1.nodes[node].next
  IN  IF n # None
      THEN [L1 EXCEPT !.nodes[n].prev = L1.nodes[node].prev]
      ELSE L1

\* the order list as a record [head, tail, nodes]
remove_node(L, node) ==
  LET p  == L.nodes[node].prev
      L1 == IF p # None
            THEN [L EXCEPT !.nodes[p].next = L.nodes[node].next]
            ELSE [L EXCEPT !.head = L.nodes[node].next]
      n  == L1.nodes[node].next
  IN  IF n # None
      THEN [L1 EXCEPT !.nodes[n].prev = L1.nodes[node].prev]
      ELSE [L1 EXCEPT !.tail = L1.nodes[node].prev]

\* add_to_end that does not set the back link of the node
add_to_end_noprev(L, node) ==
  IF L.tail = None
  THEN [L EXCEPT !.head = node, !.tail = node]
  ELSE LET L1 == [L  EXCEPT !.nodes[L.tail].next = node]
           L3 == [L1 EXCEPT !.nodes[node].next = None]
       IN  [L3 EXCEPT !.tail = node]

\* add_to_end that links the node but leaves tail on the old last node
add_to_end_keeptail(L, node) ==
  IF L.tail = None
  THEN [L EXCEPT !.head = node, !.tail = node]
  ELSE LET L1 == [L  EXCEPT !.nodes[L.tail].next = node]
           L2 == [L1 EXCEPT !.nodes[node].prev = L.tail]
       IN  [L2 EXCEPT !.nodes[node].next = None]

add_to_end(L, node) ==
  IF L.tail = None
  THEN [L EXCEPT !.head = node, !.tail = node]
  ELSE LET L1 == [L  EXCEPT !.nodes[L.tail].next = node]
           L2 == [L1 EXCEPT !.nodes[node].prev = L.tail]
           L3 == [L2 EXCEPT !.nodes[node].next = None]
       IN  [L3 EXCEPT !.tail = node]

\* an update that leaves the node where it is in the order list
move_to_end_stay(L, node) == L

move_to_end(L, node) ==
  IF node = L.tail THEN L
  ELSE add_to_end(remove_node(L, node), node)

List == [head |-> head, tail |-> tail, nodes |-> nodes]

(* ---------------------------- results of the calls -------------------- *)
\* get that tests the slot for None only, not for the key
get_nokeycheck(key) ==
  LET idx == find_slot(table, key)
  IN  IF table[idx] = None
      THEN <<"KeyError">>
      ELSE <<"ok", nodes[table[idx]].value>>

\* get(key): <<"ok", value>> or <<"KeyError">>
get(key) ==
  LET idx == find_slot(table, key)
  IN  IF table[idx] = None \/ table[idx] # key
      THEN <<"KeyError">>
      ELSE <<"ok", nodes[table[idx]].value>>

\* get_first() / get_last(): <<>> for None, else <<key, value>>
get_first == IF head = None THEN <<>> ELSE <<head, nodes[head].value>>

get_last == IF tail = None THEN <<>> ELSE <<tail, nodes[tail].value>>

(* ---------------------------- history helpers ------------------------- *)
RECURSIVE without(_, _)
without(s, k) ==
  IF s = <<>> THEN <<>>
  ELSE IF Head(s) = k THEN without(Tail(s), k)
  ELSE <<Head(s)>> \o without(Tail(s), k)

\* the record of a call: idx is the slot _find_slot returned, found whether
\* that slot held the key, moved the keys the cluster repair put in another
\* slot, node the Node a successful remove unlinked, as remove left it
Call(op, key, value, res, ret) ==
  [op |-> op, key |-> key, value |-> value, res |-> res, ret |-> ret,
   idx |-> IF key = None THEN 0 ELSE find_slot(table, key),
   found |-> key # None /\ table[find_slot(table, key)] = key,
   moved |-> {}, node |-> NoNode]

(* ---------------------------- operations ------------------------------ *)
\* capacity test that is off by one
is_full_offbyone == count > size

is_full == count >= size

\* FixedHashTable(size) called with hash values h for the keys
Construct(n, h) ==
  /\ size = n
  /\ rawhash = h
  /\ table = [i \in 0..(n - 1) |-> None]
  /\ nodes = [k \in DOMAIN h |-> NoNode]
  /\ count = 0
  /\ head = None
  /\ tail = None
  /\ last = [op |-> "init", key |-> None, value |-> NoVal, res |-> "ok",
             ret |-> <<>>, idx |-> 0, found |-> FALSE, moved |-> {},
             node |-> NoNode]
  /\ ref_order = <<>>
  /\ ref_map = [k \in DOMAIN h |-> NoVal]
  /\ pc = 0
  /\ trade = <<>>
  /\ parsed = <<>>

\* the free caller uses every key in every order, so the keys are
\* interchangeable: they are named in the order of their hashes
Init ==
  \E n \in Sizes :
    \E h \in [{KeyNames[i] : i \in 1..NumKeys} -> 0..(n - 1)] :
      /\ \A i \in 1..(NumKeys - 1) : h[KeyNames[i]] <= h[KeyNames[i + 1]]
      /\ Construct(n, h)

insert(key, value) ==
  LET idx == find_slot(table, key)
  IN  /\ UNCHANGED <<size, rawhash, trade, parsed>>
      /\ IF table[idx] # None /\ table[idx] = key
         THEN LET node == table[idx]
                  L    == move_to_end(
                            [List EXCEPT !.nodes[node].value = value], node)
              IN  /\ nodes' = L.nodes
                  /\ head' = L.head
                  /\ tail' = L.tail
                  /\ UNCHANGED <<table, count>>
                  /\ last' = Call("insert", key, value, "ok", <<>>)
                  /\ ref_order' = without(ref_order, key) \o <<key>>
                  /\ ref_map' = [ref_map EXCEPT ![key] = value]
         ELSE IF is_full
         THEN /\ UNCHANGED <<table, nodes, count, head, tail>>
              /\ last' = Call("insert", key, value, "full", <<>>)
              /\ UNCHANGED <<ref_order, ref_map>>
         ELSE LET L == add_to_end([List EXCEPT !.nodes[key] = Node(value)],
                                  key)
              IN  /\ table' = [table EXCEPT ![idx] = key]
                  /\ nodes' = L.nodes
                  /\ head' = L.head
                  /\ tail' = L.tail
                  /\ count' = count + 1
                  /\ last' = Call("insert", key, value, "ok", <<>>)
                  /\ ref_order' = without(ref_order, key) \o <<key>>
                  /\ ref_map' = [ref_map EXCEPT ![key] = value]

\* remove whose repair also moves the first entry it re-seats to the end
\* of the order list, as a re-insertion through insert would
remove_relink(key) ==
  LET idx == find_slot(table, key)
  IN  /\ UNCHANGED <<size, rawhash, trade, parsed>>
      /\ IF table[idx] = None \/ table[idx] # key
         THEN /\ UNCHANGED <<table, nodes, count, head, tail>>
              /\ last' = Call("remove", key, NoVal, "KeyError", <<>>)
              /\ UNCHANGED <<ref_order, ref_map>>
         ELSE LET node == table[idx]
                  nxt  == table[(idx + 1) % size]
                  L1   == remove_node(List, node)
                  L    == IF nxt # None /\ nxt # node
                          THEN move_to_end(L1, nxt) ELSE L1
                  tc   == rehash_cluster(
                            [table |-> [table EXCEPT ![idx] = None],
                             count |-> count - 1], idx)
              IN  /\ table' = tc.table
                  /\ count' = tc.count
                  /\ nodes' = [L.nodes EXCEPT ![node] = NoNode]
                  /\ head' = L.head
                  /\ tail' = L.tail
                  /\ last' = [Call("remove", key, NoVal, "ok", <<>>) EXCEPT
                       !.node = L.nodes[node],
                       !.moved = {table[i] : i \in
                                   {j \in Slots : /\ table[j] # None
                                                  /\ j # idx
                                                  /\ tc.table[j] # table[j]}}]
                  /\ ref_order' = without(ref_order, key)
                  /\ ref_map' = [ref_map EXCEPT ![key] = NoVal]

remove(key) ==
  LET idx == find_slot(table, key)
  IN  /\ UNCHANGED <<size, rawhash, trade, parsed>>
      /\ IF table[idx] = None \/ table[idx] # key
         THEN /\ UNCHANGED <<table, nodes, count, head, tail>>
              /\ last' = Call("remove", key, NoVal, "KeyError", <<>>)
              /\ UNCHANGED <<ref_order, ref_map>>
         ELSE LET node == table[idx]
                  L    == remove_node(List, node)
                  tc   == rehash_cluster(
                            [table |-> [table EXCEPT ![idx] = None],
                             count |-> count - 1], idx)
              IN  /\ table' = tc.table
                  /\ count' = tc.count
                  /\ nodes' = [L.nodes EXCEPT ![node] = NoNode]
                  /\ head' = L.head
                  /\ tail' = L.tail
                  /\ last' = [Call("remove", key, NoVal, "ok", <<>>) EXCEPT
                       !.node = L.nodes[node],
                       !.moved = {table[i] : i \in
                                   {j \in Slots : /\ table[j] # None
                                                  /\ j # idx
                                                  /\ tc.table[j] # table[j]}}]
                  /\ ref_order' = without(ref_order, key)
                  /\ ref_map' = [ref_map EXCEPT ![key] = NoVal]

\* get that moves the entry it found to the end of the order list
Get_touch(key) ==
  LET L == IF get(key)[1] = "ok" THEN move_to_end(List, key) ELSE List
  IN  /\ last' = Call("get", key, NoVal, get(key)[1], Tail(get(key)))
      /\ nodes' = L.nodes
      /\ head' = L.head
      /\ tail' = L.tail
      /\ UNCHANGED <<size, rawhash, table, count, ref_order, ref_map>>
      /\ UNCHANGED <<trade, parsed>>

Get(key) ==
  /\ last' = Call("get", key, NoVal, get(key)[1], Tail(get(key)))
  /\ UNCHANGED <<size, rawhash, table, nodes, count, head, tail>>
  /\ UNCHANGED <<trade, parsed>>
  /\ UNCHANGED <<ref_order, ref_map>>

GetFirst ==
  /\ last' = Call("get_first", None, NoVal, "ok", get_first)
  /\ UNCHANGED <<size, rawhash, table, nodes, count, head, tail>>
  /\ UNCHANGED <<trade, parsed>>
  /\ UNCHANGED <<ref_order, ref_map>>

GetLast ==
  /\ last' = Call("get_last", None, NoVal, "ok", get_last)
  /\ UNCHANGED <<size, rawhash, table, nodes, count, head, tail>>
  /\ UNCHANGED <<trade, parsed>>
  /\ UNCHANGED <<ref_order, ref_map>>

(* ---------------------------- the free caller ------------------------- *)
DoInsert == \E k \in Keys, v \in Vals : insert(k, v) /\ UNCHANGED pc

DoRemove == \E k \in Keys : remove(k) /\ UNCHANGED pc

DoGet == \E k \in Keys : Get(k) /\ UNCHANGED pc

DoGetFirst == GetFirst /\ UNCHANGED pc

DoGetLast == GetLast /\ UNCHANGED pc

Next ==
  \/ DoInsert
  \/ DoRemove
  \/ DoGet
  \/ DoGetFirst
  \/ DoGetLast

Spec == Init /\ [][Next]_vars

(* ---------------------------- the scripted caller --------------------- *)
\* the calls of the size-3 scenario, in order
Script ==
  << [op |-> "insert",    key |-> "a",  value |-> 1],
     [op |-> "insert",    key |-> "b",  value |-> 2],
     [op |-> "insert",    key |-> "c",  value |-> 3],
     [op |-> "get_first", key |-> None, value |-> NoVal],
     [op |-> "get_last",  key |-> None, value |-> NoVal],
     [op |-> "insert",    key |-> "a",  value |-> 10],
     [op |-> "get_last",  key |-> None, value |-> NoVal],
     [op |-> "get_first", key |-> None, value |-> NoVal],
     [op |-> "remove",    key |-> "b",  value |-> NoVal],
     [op |-> "get",       key |-> "b",  value |-> NoVal],
     [op |-> "get",       key |-> "c",  value |-> NoVal],
     [op |-> "get",       key |-> "a",  value |-> NoVal],
     [op |-> "insert",    key |-> "d",  value |-> 4],
     [op |-> "insert",    key |-> "e",  value |-> 5] >>

\* what the scenario says each call of Script answers
Expected ==
  << [res |-> "ok",       ret |-> <<>>],
     [res |-> "ok",       ret |-> <<>>],
     [res |-> "ok",       ret |-> <<>>],
     [res |-> "ok",       ret |-> <<"a", 1>>],
     [res |-> "ok",       ret |-> <<"c", 3>>],
     [res |-> "ok",       ret |-> <<>>],
     [res |-> "ok",       ret |-> <<"a", 10>>],
     [res |-> "ok",       ret |-> <<"b", 2>>],
     [res |-> "ok",       ret |-> <<>>],
     [res |-> "KeyError", ret |-> <<>>],
     [res |-> "ok",       ret |-> <<3>>],
     [res |-> "ok",       ret |-> <<10>>],
     [res |-> "ok",       ret |-> <<>>],
     [res |-> "full",     ret |-> <<>>] >>

ScenarioInit ==
  \E h \in [{"a", "b", "c", "d", "e"} -> 0..2] : Construct(3, h)

Scripted(op) ==
  /\ pc < Len(Script)
  /\ Script[pc + 1].op = op
  /\ pc' = pc + 1

ScenarioInsert ==
  Scripted("insert") /\ insert(Script[pc + 1].key, Script[pc + 1].value)

ScenarioRemove == Scripted("remove") /\ remove(Script[pc + 1].key)

ScenarioGet == Scripted("get") /\ Get(Script[pc + 1].key)

ScenarioGetFirst == Scripted("get_first") /\ GetFirst

ScenarioGetLast == Scripted("get_last") /\ GetLast

ScenarioNext ==
  \/ ScenarioInsert
  \/ ScenarioRemove
  \/ ScenarioGet
  \/ ScenarioGetFirst
  \/ ScenarioGetLast

ScenarioSpec == ScenarioInit /\ [][ScenarioNext]_vars

(* ---------------------------- parse_trade ----------------------------- *)
\* BinanceTradesClient.parse_trade (src/trading_api/binance_trades_client.py)
\* a Python value is [type, v]; a key the dict does not have maps to Absent
Absent == [type |-> "absent", v |-> ""]

PyNone == [type |-> "NoneType", v |-> "None"]

PyValues ==
  { [type |-> "int",  v |-> "7"],
    [type |-> "str",  v |-> "0.01"],
    [type |-> "bool", v |-> "True"] }

\* the seven fields parse_trade reads
TradeFields == {"a", "p", "q", "f", "l", "T", "m"}

\* the dicts given: each of the seven fields absent or of one of the types,
\* and the field "e" of the feed, which parse_trade does not read
Trades ==
  { [k \in TradeFields \cup {"e"} |-> IF k = "e" THEN e ELSE t[k]] :
      t \in [TradeFields -> PyValues \cup {Absent}],
      e \in {Absent, [type |-> "str", v |-> "aggTrade"]} }

\* trade.get(key)
dict_get(d, key) == IF d[key] = Absent THEN PyNone ELSE d[key]

\* isinstance(x, cls): bool is a subclass of int
isinstance(x, cls) ==
  \/ x.type = cls
  \/ cls = "int" /\ x.type = "bool"

\* <<>> for None, else <<the new dict>>
parse_trade(d) ==
  IF ~ ( /\ isinstance(dict_get(d, "a"), "int")
         /\ isinstance(dict_get(d, "p"), "str")
         /\ isinstance(dict_get(d, "q"), "str")
         /\ isinstance(dict_get(d, "f"), "int")
         /\ isinstance(dict_get(d, "l"), "int")
         /\ isinstance(dict_get(d, "T"), "int")
         /\ isinstance(dict_get(d, "m"), "bool") )
  THEN <<>>
  ELSE << [k \in TradeFields |-> d[k]] >>

ParseInit ==
  /\ size = 1
  /\ rawhash = <<>>
  /\ table = [i \in {0} |-> None]
  /\ nodes = <<>>
  /\ count = 0
  /\ head = None
  /\ tail = None
  /\ last = [op |-> "init", key |-> None, value |-> NoVal, res |-> "ok",
             ret |-> <<>>, idx |-> 0, found |-> FALSE, moved |-> {},
             node |-> NoNode]
  /\ ref_order = <<>>
  /\ ref_map = <<>>
  /\ pc = 0
  /\ trade \in Trades
  /\ parsed = <<>>

ParseTrade ==
  /\ pc = 0
  /\ pc' = 1
  /\ parsed' = parse_trade(trade)
  /\ trade' = trade
  /\ UNCHANGED <<size, rawhash, table, nodes, count, head, tail, last>>
  /\ UNCHANGED <<ref_order, ref_map>>

ParseNext == ParseTrade

ParseSpec == ParseInit /\ [][ParseNext]_vars

(* ---------------------------- observations ---------------------------- *)
\* the key is held by some slot
live(k) == \E i \in Slots : table[i] = k

RECURSIVE follow(_, _)
follow(n, fuel) ==
  IF n = None \/ fuel = 0 THEN <<>>
  ELSE <<n>> \o follow(nodes[n].next, fuel - 1)

\* the keys met by following next from head
order == follow(head, Cardinality(Keys) + 1)

tstate == <<table, nodes, count, head, tail>>

Removed(k) == last.op = "remove" /\ last.res = "ok" /\ last.key = k

(* ---------------------------- claims ---------------------------------- *)
\* C1: count <= size after every call, successful or failing.
C1_CapacityInvariant == count <= size

\* a remove from a full table whose repair took two entries out of their
\* slots and put them back in others, count going down and up each time
C1_Witness ==
  /\ last.op = "remove" /\ last.res = "ok"
  /\ count = size - 1 /\ Cardinality(last.moved) = 2

\* C2: after a successful remove(k), every other key that get returned
\* before the call is still returned by get, with the same value.
C2_RemovalReachability ==
  [][\A k \in Keys :
       Removed(k)' =>
         \A j \in Keys \ {k} : get(j)[1] = "ok" => get(j)' = get(j)]_vars

\* a remove from a full table of size 3 (the cluster is the whole ring and
\* wraps past the last slot) whose repair moved an entry to another slot
C2_Witness ==
  /\ last.op = "remove" /\ last.res = "ok"
  /\ size = 3 /\ count = 2
  /\ last.moved # {}
  /\ \E j \in last.moved : get(j) = <<"ok", ref_map[j]>>

\* C3: get(k) returns the value of the last successful insert(k, v) as long
\* as no remove(k) followed it, whatever was done to the other keys.
C3_RoundTrip ==
  \A k \in Keys : ref_map[k] # NoVal => get(k) = <<"ok", ref_map[k]>>

\* k was inserted, then another key was removed and the repair moved k
C3_Witness ==
  /\ last.op = "remove" /\ last.res = "ok"
  /\ \E k \in last.moved : ref_map[k] # NoVal /\ table[hash(k)] # k

\* C4: get_first() is the live key touched longest ago, get_last() the one
\* touched last, each with its current value; both are None exactly when
\* the table holds no entry.
C4_OrderEndpoints ==
  /\ get_first = IF ref_order = <<>> THEN <<>>
                 ELSE <<Head(ref_order), ref_map[Head(ref_order)]>>
  /\ get_last = IF ref_order = <<>> THEN <<>>
                ELSE <<ref_order[Len(ref_order)],
                       ref_map[ref_order[Len(ref_order)]]>>
  /\ (get_first = <<>>) = (\A i \in Slots : table[i] = None)
  /\ (get_last = <<>>) = (\A i \in Slots : table[i] = None)

\* get_first() answered a key that is not the first of the keys by name,
\* in a table whose three keys were touched in the order b, c, a
C4_Witness ==
  /\ last.op = "get_first" /\ last.ret = <<"b", 2>>
  /\ ref_order = <<"b", "c", "a">>
  /\ get_last = <<"a", 1>>

\* C5: insert of a key that no slot holds into a table with count = size
\* fails with the capacity error and changes nothing.
C5_FullTableRejection ==
  [][\A k \in Keys :
       (last'.op = "insert" /\ last'.key = k /\ ~live(k) /\ count = size)
         => last'.res = "full" /\ tstate' = tstate]_vars

\* a rejected insert whose probe went round a full table of two slots or more
C5_Witness ==
  /\ last.op = "insert" /\ last.res = "full"
  /\ size >= 2 /\ count = size
  /\ ~live(last.key) /\ last.idx = hash(last.key)

\* C6: get and remove of a key that no slot holds fail with the not-found
\* error and change nothing.
C6_NotFound ==
  [][\A k \in Keys :
       (last'.op \in {"get", "remove"} /\ last'.key = k /\ ~live(k))
         => last'.res = "KeyError" /\ tstate' = tstate]_vars

\* a not-found on a full table (the probe came back to its start)
C6_Witness ==
  /\ last.op \in {"get", "remove"} /\ last.res = "KeyError"
  /\ size >= 2 /\ count = size
  /\ table[last.idx] # None /\ last.idx = hash(last.key)

\* C7: a successful remove(k) lowers count by exactly one and leaves k in no
\* slot and not on the order list; get(k) keeps failing until k is
\* inserted again.
C7_RemoveMakesAbsent ==
  /\ [][\A k \in Keys :
          Removed(k)' =>
            /\ count' = count - 1
            /\ ~live(k)'
            /\ \A i \in 1..Len(order') : order'[i] # k
            /\ get(k)' = <<"KeyError">>]_vars
  /\ [](\A k \in Keys : ref_map[k] = NoVal => get(k) = <<"KeyError">>)

\* a removed key that stays absent while the repair moved other entries
C7_Witness ==
  /\ last.op = "remove" /\ last.res = "ok" /\ last.moved # {}
  /\ get(last.key) = <<"KeyError">>

\* C8: insert of a key that a slot holds succeeds, also on a full table:
\* the value is replaced, the key becomes get_last(), the slot array and
\* count are unchanged, and so are the other entries' values and order.
C8_UpdateInPlace ==
  [][\A k \in Keys :
       (last'.op = "insert" /\ last'.key = k /\ live(k)) =>
         /\ last'.res = "ok"
         /\ get(k)' = <<"ok", last'.value>>
         /\ get_last' = <<k, last'.value>>
         /\ table' = table
         /\ find_slot(table', k) = find_slot(table, k)
         /\ count' = count
         /\ without(order', k) = without(order, k)
         /\ \A j \in Keys \ {k} : get(j)' = get(j)]_vars

\* an update on a full table of a key that sits past its hash slot
C8_Witness ==
  /\ last.op = "insert" /\ last.res = "ok" /\ last.found
  /\ size = 3 /\ count = size
  /\ last.idx # hash(last.key)
  /\ get_last = <<last.key, last.value>>

\* C9: get, get_first and get_last change nothing, whether they succeed or
\* fail, so they never change what get_first() and get_last() return.
C9_ReadOnly ==
  [][last'.op \in {"get", "get_first", "get_last"} =>
       /\ tstate' = tstate
       /\ get_first' = get_first
       /\ get_last' = get_last]_vars

\* a get that found a key which is neither the oldest nor the newest
C9_Witness ==
  /\ last.op = "get" /\ last.res = "ok"
  /\ count = 3
  /\ head # last.key /\ tail # last.key

\* C10: on a table of size 3, whatever slots the keys a..e hash to, every
\* call of the scenario answers what the scenario says, and count is 3
\* again after insert(d, 4).
C10_Scenario ==
  /\ pc >= 1 => /\ last.op = Script[pc].op
                /\ last.key = Script[pc].key
                /\ last.res = Expected[pc].res
                /\ last.ret = Expected[pc].ret
  /\ pc \in {3, 13, 14} => count = 3

\* the end of the scenario when all five keys hash to the last slot: every
\* probe wraps, and remove(b) re-seats both c and a
C10_Witness ==
  /\ pc = Len(Script)
  /\ last.res = "full"
  /\ \A k \in Keys : hash(k) = 2
  /\ table = [i \in Slots |-> <<"c", "d", "a">>[i + 1]]


\* C11: the entries met by following next from head are exactly the entries
\* held by the non-empty slots, each met once, ending at tail; their number
\* is count, which is the number of non-empty slots.
C11_ListMatchesSlots ==
  /\ {order[i] : i \in 1..Len(order)} = {table[s] : s \in Slots} \ {None}
  /\ Cardinality({order[i] : i \in 1..Len(order)}) = Len(order)
  /\ Len(order) = count
  /\ count = Cardinality({s \in Slots : table[s] # None})
  /\ tail = IF order = <<>> THEN None ELSE order[Len(order)]

\* two entries left after a remove whose repair moved both of them
C11_Witness ==
  /\ last.op = "remove" /\ last.res = "ok"
  /\ Cardinality(last.moved) = 2
  /\ Len(order) = 2 /\ {order[1], order[2]} = last.moved

\* C12: for every key held by a slot s, every slot on the cyclic probe path
\* from the key's hash slot up to, not including, s is occupied, and
\* _find_slot of the key returns s.
C12_NoGap ==
  \A s \in Slots :
    table[s] # None =>
      LET k == table[s]
          d == (s + size - hash(k)) % size
      IN  /\ \A e \in 0..(d - 1) : table[(hash(k) + e) % size] # None
          /\ find_slot(table, k) = s

\* after a repair, a re-seated key still sits past its hash slot on a probe
\* path that wraps past the last slot
C12_Witness ==
  /\ last.op = "remove" /\ last.res = "ok"
  /\ \E s \in Slots : table[s] \in last.moved /\ s < hash(table[s])


\* C18: no key is held by two slots, and every key inserted and not removed
\* since is held by exactly one slot; a removed key is held by none.
C18_OneSlotPerEntry ==
  /\ \A i, j \in Slots : (i # j /\ table[i] # None) => table[i] # table[j]
  /\ \A k \in Keys :
       Cardinality({s \in Slots : table[s] = k}) =
         IF ref_map[k] # NoVal THEN 1 ELSE 0

\* a repair put a re-seated entry into the very slot the remove had cleared
C18_Witness ==
  /\ last.op = "remove" /\ last.res = "ok"
  /\ table[last.idx] \in last.moved
  /\ Cardinality({s \in Slots : table[s] = table[last.idx]}) = 1

\* C20: head is None iff tail is None iff count = 0; otherwise head has no
\* prev, tail has no next, and n.next = m implies m.prev = n for every
\* entry n that a slot holds or the list reaches.
C20_WellFormedList ==
  /\ (head = None) = (tail = None)
  /\ (head = None) = (count = 0)
  /\ head # None => nodes[head].prev = None
  /\ tail # None => nodes[tail].next = None
  /\ \A n \in ({table[s] : s \in Slots} \ {None})
                \cup {order[i] : i \in 1..Len(order)} :
       nodes[n].next # None => nodes[nodes[n].next].prev = n

\* an update took the middle node b of a, b, c out and linked it at the end
C20_Witness ==
  /\ last.op = "insert" /\ last.found /\ last.key = "b"
  /\ order = <<"a", "c", "b">>
  /\ nodes["c"].prev = "a" /\ nodes["b"].prev = "c"


\* C13: insert of a key that no slot holds while count < size succeeds: the
\* key is written into a slot that was empty and no other slot changes,
\* count grows by one, the key becomes the tail behind the unchanged
\* sequence of the others, and the others keep their values.
C13_FreshInsert ==
  [][\A k \in Keys :
       (last'.op = "insert" /\ last'.key = k /\ ~live(k) /\ count < size) =>
         /\ last'.res = "ok"
         /\ \E s \in Slots : /\ table[s] = None
                              /\ table' = [table EXCEPT ![s] = k]
         /\ count' = count + 1
         /\ get_last' = <<k, last'.value>>
         /\ order' = order \o <<k>>
         /\ \A j \in Keys \ {k} : get(j)' = get(j)]_vars

\* the insert that fills a size-3 table, into a slot its probe reached by
\* passing occupied slots and wrapping past the last slot
C13_Witness ==
  /\ last.op = "insert" /\ last.res = "ok" /\ ~last.found
  /\ size = 3 /\ count = 3
  /\ last.idx < hash(last.key)
  /\ table[last.idx] = last.key /\ tail = last.key

\* C14: after a successful remove(k) the head-to-tail sequence of keys is
\* the sequence before the call with k deleted, whatever the repair moved.
C14_RepairKeepsOrder ==
  [][\A k \in Keys :
       Removed(k)' =>
         /\ \E i \in 1..Len(order) : order[i] = k
         /\ order' = without(order, k)]_vars

\* the repair moved both remaining entries, and the one touched first sits
\* in a later slot than the one touched last
C14_Witness ==
  /\ last.op = "remove" /\ last.res = "ok"
  /\ Cardinality(last.moved) = 2 /\ Len(order) = 2
  /\ \E s, t \in Slots : s > t /\ table[s] = order[1] /\ table[t] = order[2]

\* C15: every call answers what a reference made of a map bounded to size
\* keys and a recency sequence of its keys answers, and the reference
\* moves as the call says, whatever the hash slots of the keys are.
C15_Refinement ==
  [][LET c      == last'
         has    == c.key # None /\ ref_map[c.key] # NoVal
         room   == Len(ref_order) < size
         first  == IF ref_order = <<>> THEN <<>>
                   ELSE <<Head(ref_order), ref_map[Head(ref_order)]>>
         newest == IF ref_order = <<>> THEN <<>>
                   ELSE <<ref_order[Len(ref_order)],
                          ref_map[ref_order[Len(ref_order)]]>>
         res    == CASE c.op = "insert" -> IF has \/ room THEN "ok" ELSE "full"
                     [] c.op \in {"remove", "get"} ->
                          IF has THEN "ok" ELSE "KeyError"
                     [] OTHER -> "ok"
         ret    == CASE c.op = "get" /\ has -> <<ref_map[c.key]>>
                     [] c.op = "get_first" -> first
                     [] c.op = "get_last" -> newest
                     [] OTHER -> <<>>
         map2   == CASE c.op = "insert" /\ res = "ok" ->
                          [ref_map EXCEPT ![c.key] = c.value]
                     [] c.op = "remove" /\ res = "ok" ->
                          [ref_map EXCEPT ![c.key] = NoVal]
                     [] OTHER -> ref_map
         seq2   == CASE c.op = "insert" /\ res = "ok" ->
                          without(ref_order, c.key) \o <<c.key>>
                     [] c.op = "remove" /\ res = "ok" ->
                          without(ref_order, c.key)
                     [] OTHER -> ref_order
     IN  /\ c.res = res
         /\ c.ret = ret
         /\ ref_map' = map2
         /\ ref_order' = seq2
         /\ {ref_order[i] : i \in 1..Len(ref_order)} =
              {k \in Keys : ref_map[k] # NoVal}]_vars

\* a get answered from a slot its probe reached by wrapping round a full
\* size-3 table, for a key that is neither the oldest nor the newest
C15_Witness ==
  /\ last.op = "get" /\ last.res = "ok"
  /\ size = 3 /\ count = 3
  /\ last.idx < hash(last.key)
  /\ last.ret = <<ref_map[last.key]>>
  /\ ref_order[2] = last.key


\* C16: in every reachable state the probe of _find_slot looks at no more
\* than size slots for any key, held or not, and the repair loop of a
\* successful remove makes no more than size iterations, each with a probe
\* of no more than size slots, and ends with the table remove returns.
C16_Termination ==
  /\ [](\A k \in Keys :
          /\ find_slot_trace(table, k).visits <= size
          /\ find_slot_trace(table, k).idx = find_slot(table, k))
  /\ [][\A k \in Keys :
          Removed(k)' =>
            LET idx == find_slot(table, k)
                r   == rehash_trace(
                         [table  |-> [table EXCEPT ![idx] = None],
                          count  |-> count - 1,
                          iters  |-> 0,
                          probes |-> 0],
                         (idx + 1) % size, idx, size)
            IN  /\ r.iters <= size
                /\ r.probes <= size
                /\ r.table = table'
                /\ r.count = count']_vars

\* a remove from a full size-3 table: the loop went over both other slots
\* and stopped on coming back to the removed slot, which a re-seated entry
\* had filled again; the removed key's probe now looks at all three slots
C16_Witness ==
  /\ last.op = "remove" /\ last.res = "ok"
  /\ size = 3 /\ count = 2
  /\ table[last.idx] # None
  /\ find_slot_trace(table, last.key).visits = 3


\* the entries that slots hold
held == {table[s] : s \in Slots} \ {None}

\* C17, as claimed: after a successful remove(k) no slot holds the removed
\* entry, neither head, tail nor a held entry refers to it, and its own
\* prev and next are None.
C17_TerminalStateAsClaimed ==
  (last.op = "remove" /\ last.res = "ok") =>
    /\ ~live(last.key)
    /\ head # last.key /\ tail # last.key
    /\ \A n \in held : nodes[n].prev # last.key /\ nodes[n].next # last.key
    /\ last.node.prev = None /\ last.node.next = None

\* C17, amended: after a successful remove(k) no slot holds the removed
\* entry and neither head, tail nor a held entry refers to it; its own prev
\* and next are not reset: they still name the neighbours it had.
C17_Unlinked ==
  [][\A k \in Keys :
       Removed(k)' =>
         /\ ~live(k)'
         /\ head' # k /\ tail' # k
         /\ \A n \in held' : nodes'[n].prev # k /\ nodes'[n].next # k
         /\ last'.node.prev = nodes[k].prev
         /\ last'.node.next = nodes[k].next]_vars

\* the middle entry of three was removed: its neighbours are linked to each
\* other and it still names both
C17_Witness ==
  /\ last.op = "remove" /\ last.res = "ok"
  /\ last.node.prev = head /\ last.node.next = tail
  /\ head # None /\ head # tail
  /\ nodes[head].next = tail /\ nodes[tail].prev = head


\* the type the claim names for each of the seven fields
FieldType ==
  [k \in TradeFields |->
     CASE k \in {"a", "f", "l", "T"} -> "int"
       [] k \in {"p", "q"} -> "str"
       [] OTHER -> "bool"]

\* C19: parse_trade returns a new dict of exactly the seven fields, copied,
\* when all seven are present with the types int, str, str, int, int, int,
\* bool, returns None when one is missing or of another type (a boolean for
\* an integer field included), and leaves its input as it was.
C19_ParseTradeAsClaimed ==
  [][pc' = 1 =>
       /\ parsed' = IF \A k \in TradeFields : trade[k].type = FieldType[k]
                    THEN << [k \in TradeFields |-> trade[k]] >>
                    ELSE <<>>
       /\ trade' = trade]_vars

====
